---- MODULE Spec2Model ----
(***************************************************************************)
(* The lossless throttle operator of src/src/index.ts:                     *)
(*                                                                         *)
(*   source.pipe(scan(schedulePayload(rate, period, maxBuffer), []),       *)
(*               concatMap(executeSchedule)).subscribe(observer)           *)
(*                                                                         *)
(* One action is one run-to-completion handler of the JavaScript event     *)
(* loop: a value of the source (the scan reducer, then concatMap's         *)
(* outerNext with every inner subscription it starts synchronously), the   *)
(* expiry of a delay timer (the delivery, the completion of the inner      *)
(* observable and the buffered snapshots concatMap then projects), the     *)
(* completion or the error of the source, the consumer's unsubscribe, and  *)
(* the passing of one millisecond.                                         *)
(*                                                                         *)
(* ThrottleInterface objects live in a heap and are referred to by         *)
(* reference: the arrays scan emits are fresh (Array.prototype.filter      *)
(* copies), the objects in them are shared, so the scheduled flag set      *)
(* through one snapshot is seen through every other.  The payload of the   *)
(* n-th source value is n, and the object created for it has reference n.  *)
(***************************************************************************)
EXTENDS Integers, Sequences, FiniteSets

\* Bounds of the model.
MaxRate == 2
MaxPeriod == 2
MaxBuffer == 2
MaxArrivals == 4
MaxTime == 4

VARIABLES
  rate,       \* losslessThrottle's rate argument (ms)
  period,     \* losslessThrottle's period argument (ms)
  maxBuffer,  \* the optional maxBuffer argument: <<>> is undefined, <<k>> is k
  now,        \* the clock: Date.now() and the timers' time, in ms
  heap,       \* reference -> ThrottleInterface object
  queue,      \* scan's accumulator: the last array schedulePayload returned
  buffer,     \* concatMap's buffer of snapshots not yet projected
  inners,     \* concatMap's active inner subscriptions: pending delay timers
  source,     \* "open", "complete" or "error"
  observer,   \* the consumer: "open", "complete", "error" or "unsubscribed"
  arrivals,   \* history: one record per source value
  processed,  \* history: the tail reference of each snapshot executeSchedule ran on
  out         \* history: the payloads delivered to observer.next, with their time

vars == <<rate, period, maxBuffer, now, heap, queue, buffer, inners, source,
          observer, arrivals, processed, out>>

\* !!maxBuffer: undefined and 0 are falsy.
Truthy(opt) == Len(opt) > 0 /\ opt[1] # 0

\* A faulty variant: the window's boundary counted as inside it.
isWithinCurrentPeriodInclusive(t, p, data) == data.emitTime >= t - p

isWithinCurrentPeriod(t, p, data) == data.emitTime > t - p

\* queue.filter(isWithinCurrentPeriod(now, period))
prune(h, q, t) == SelectSeq(q, LAMBDA ref : isWithinCurrentPeriod(t, period, h[ref]))

\* A faulty variant: the capacity reached one item early.
atCapacityEarly(q) == Truthy(maxBuffer) /\ Len(q) >= maxBuffer[1] - 1

\* A faulty variant: the capacity test off by one the other way.
atCapacityGreater(q) == Truthy(maxBuffer) /\ Len(q) > maxBuffer[1]

\* A faulty variant: maxBuffer tested for being given, not for being truthy.
atCapacityDefined(q) == Len(maxBuffer) > 0 /\ Len(q) = maxBuffer[1]

\* !!maxBuffer && queue.length === maxBuffer
atCapacity(q) == Truthy(maxBuffer) /\ Len(q) = maxBuffer[1]

\* A faulty variant: the delay of a throttled payload left at 0.
newItemUndelayed(h, q, payload, t) ==
  [delay     |-> 0,
   emitTime  |-> IF Len(q) > 0 THEN h[q[1]].emitTime + rate ELSE t,
   payload   |-> payload,
   scheduled |-> FALSE]

\* A faulty variant: the emitTime chained off the tail instead of the head.
newItemChained(h, q, payload, t) ==
  [delay     |-> IF Len(q) > 0 THEN rate ELSE 0,
   emitTime  |-> IF Len(q) > 0 THEN h[q[Len(q)]].emitTime + rate ELSE t,
   payload   |-> payload,
   scheduled |-> FALSE]

\* The object pushed for a payload onto the pruned queue q.
newItem(h, q, payload, t) ==
  [delay     |-> IF Len(q) > 0 THEN rate ELSE 0,
   emitTime  |-> IF Len(q) > 0 THEN h[q[1]].emitTime + rate ELSE t,
   payload   |-> payload,
   scheduled |-> FALSE]

\* A faulty variant: the new object put at the front of the array (unshift).
schedulePayloadUnshift(h, q, payload, t) ==
  LET pruned == prune(h, q, t) IN
  IF atCapacity(pruned)
    THEN [heap |-> h, queue |-> pruned]
    ELSE [heap  |-> [r \in DOMAIN h \cup {payload} |->
                       IF r = payload THEN newItem(h, pruned, payload, t) ELSE h[r]],
          queue |-> <<payload>> \o pruned]

\* The reducer given to scan: the new array, and the heap with the new object.
schedulePayload(h, q, payload, t) ==
  LET pruned == prune(h, q, t) IN
  IF atCapacity(pruned)
    THEN [heap |-> h, queue |-> pruned]
    ELSE [heap  |-> [r \in DOMAIN h \cup {payload} |->
                       IF r = payload THEN newItem(h, pruned, payload, t) ELSE h[r]],
          queue |-> Append(pruned, payload)]

\* A faulty variant: the inner observable never piped through delay.
innerDelayNone(item) == 0

\* The delay an inner observable is subscribed with: lastItem.delay, where a
\* falsy delay means the bare of(payload).
innerDelay(item) == item.delay

\* A faulty variant: the projection without its scheduled guard.
executeScheduleUnguarded(h, q) ==
  IF Len(q) = 0
    THEN [heap |-> h, emits |-> <<>>, due |-> 0, throws |-> TRUE]
    ELSE LET lastItem == q[Len(q)] IN
         [heap   |-> [h EXCEPT ![lastItem].scheduled = TRUE],
          emits  |-> <<h[lastItem].payload>>,
          due    |-> h[lastItem].delay,
          throws |-> FALSE]

\* The projection given to concatMap.  emits is <<>> for EMPTY and <<payload>>
\* for of(payload), which is piped through delay(due) when due is not 0.  On an
\* empty array lastItem is undefined and reading lastItem.scheduled throws.
executeSchedule(h, q) ==
  IF Len(q) = 0
    THEN [heap |-> h, emits |-> <<>>, due |-> 0, throws |-> TRUE]
    ELSE LET lastItem == q[Len(q)] IN
         IF h[lastItem].scheduled
           THEN [heap |-> h, emits |-> <<>>, due |-> 0, throws |-> FALSE]
           ELSE [heap   |-> [h EXCEPT ![lastItem].scheduled = TRUE],
                 emits  |-> <<h[lastItem].payload>>,
                 due    |-> innerDelay(h[lastItem]),
                 throws |-> FALSE]

\* A faulty variant: mergeMap in place of concatMap.
ConcurrentMerge == MaxArrivals + 1

\* concatMap is mergeMap with a concurrency of one.
Concurrent == 1

\* mergeInternals' doInnerSub: project the snapshot and subscribe to the result.
\* EMPTY and of(payload) complete at once; a delayed inner stays active until its
\* timer fires.  An exception of the projection is caught and becomes the
\* consumer's error.  st is [heap, buffer, inners, processed, out, thrown].
doInnerSub(st, value, t) ==
  LET r == executeSchedule(st.heap, value) IN
  IF r.throws THEN [st EXCEPT !.thrown = TRUE] ELSE
  [heap      |-> r.heap,
   buffer    |-> st.buffer,
   thrown    |-> FALSE,
   processed |-> Append(st.processed, value[Len(value)]),
   inners    |-> IF r.emits # <<>> /\ r.due # 0
                   THEN st.inners \cup {[fireAt |-> t + r.due, payload |-> r.emits[1]]}
                   ELSE st.inners,
   out       |-> IF r.emits # <<>> /\ r.due = 0
                   THEN Append(st.out, [payload |-> r.emits[1], at |-> t])
                   ELSE st.out]

\* What runs when an inner completes:
\*   while (buffer.length && active < concurrent) doInnerSub(buffer.shift())
\* (next is a bound variable so that each round's state is computed once).
RECURSIVE drainBuffer(_, _)
drainBuffer(st, t) ==
  IF ~st.thrown /\ Len(st.buffer) > 0 /\ Cardinality(st.inners) < Concurrent
    THEN CHOOSE end \in {drainBuffer(next, t) :
                           next \in {doInnerSub([st EXCEPT !.buffer = Tail(@)],
                                                Head(st.buffer), t)}} : TRUE
    ELSE st

\* A faulty variant: switchMap in place of concatMap, a new snapshot cancelling
\* the inner subscription in progress.
outerNextSwitch(st, value, t) == doInnerSub([st EXCEPT !.inners = {}], value, t)

\* mergeInternals' outerNext: active < concurrent ? doInnerSub(value) : buffer.push(value)
outerNext(st, value, t) ==
  IF Cardinality(st.inners) < Concurrent
    THEN drainBuffer(doInnerSub(st, value, t), t)
    ELSE [st EXCEPT !.buffer = Append(@, value)]

\* A faulty variant: the completion passed on without waiting for the inners.
checkCompleteEager(src, st) ==
  IF st.thrown THEN "error" ELSE IF src = "complete" THEN "complete" ELSE "open"

\* What the consumer is told at the end of a handler: the error thrown in it,
\* or mergeInternals' checkComplete.
checkComplete(src, st) ==
  IF st.thrown THEN "error"
  ELSE IF src = "complete" /\ Len(st.buffer) = 0 /\ st.inners = {} THEN "complete"
  ELSE "open"

\* The timers left after a handler: an error tears the subscription down.
activeInners(st) == IF st.thrown THEN {} ELSE st.inners

pipeline == [heap |-> heap, buffer |-> buffer, inners |-> inners,
             processed |-> processed, out |-> out, thrown |-> FALSE]

\* A new subscription: scan's seed is the empty queue, nothing is planned,
\* buffered or delivered.
Subscribed ==
  /\ now = 0
  /\ heap = <<>>
  /\ queue = <<>>
  /\ buffer = <<>>
  /\ inners = {}
  /\ source = "open"
  /\ observer = "open"
  /\ arrivals = <<>>
  /\ processed = <<>>
  /\ out = <<>>

Init ==
  /\ rate \in 1..MaxRate
  /\ period \in 1..MaxPeriod
  /\ maxBuffer \in {<<>>} \cup {<<k>> : k \in 0..MaxBuffer}
  /\ Subscribed

\* The source emits its next value: scan runs schedulePayload on the queue and
\* concatMap receives the new snapshot.
SourceNext ==
  /\ source = "open" /\ observer = "open"
  /\ \E s \in {schedulePayload(heap, queue, Len(arrivals) + 1, now)} :
     \E st \in {outerNext([pipeline EXCEPT !.heap = s.heap], s.queue, now)} :
        /\ queue' = s.queue
        /\ heap' = st.heap
        /\ buffer' = st.buffer
        /\ inners' = activeInners(st)
        /\ processed' = st.processed
        /\ out' = st.out
        /\ observer' = checkComplete(source, st)
        /\ arrivals' = Append(arrivals, [at       |-> now,
                                         accepted |-> Len(arrivals) + 1 \in DOMAIN s.heap,
                                         waiting  |-> inners # {}])
  /\ UNCHANGED <<rate, period, maxBuffer, now, source>>

\* The source emits its next value, within the bounds of the model.
Arrive ==
  /\ Len(arrivals) < MaxArrivals
  /\ now <= MaxTime
  /\ SourceNext

\* A delay timer expires: the payload is delivered, the inner completes, and
\* concatMap projects the snapshots it buffered.
TimerFire ==
  /\ observer = "open"
  /\ \E i \in inners :
       /\ i.fireAt = now
       /\ \E st \in {drainBuffer([pipeline EXCEPT
                                   !.inners = inners \ {i},
                                   !.out = Append(out, [payload |-> i.payload, at |-> now])],
                                now)} :
             /\ heap' = st.heap
             /\ buffer' = st.buffer
             /\ inners' = activeInners(st)
             /\ processed' = st.processed
             /\ out' = st.out
             /\ observer' = checkComplete(source, st)
  /\ UNCHANGED <<rate, period, maxBuffer, now, queue, source, arrivals>>

\* The source completes: the consumer completes once nothing is pending.
SourceComplete ==
  /\ source = "open" /\ observer = "open"
  /\ source' = "complete"
  /\ observer' = checkComplete("complete", pipeline)
  /\ UNCHANGED <<rate, period, maxBuffer, now, heap, queue, buffer, inners,
                 arrivals, processed, out>>

\* The source errors: the error goes straight to the consumer and the teardown
\* cancels the pending timer.
SourceError ==
  /\ source = "open" /\ observer = "open"
  /\ source' = "error"
  /\ observer' = "error"
  /\ inners' = {}
  /\ UNCHANGED <<rate, period, maxBuffer, now, heap, queue, buffer,
                 arrivals, processed, out>>

\* A faulty variant: an unsubscribe that leaves the pending timer running.
UnsubscribeLeaky ==
  /\ observer = "open"
  /\ observer' = "unsubscribed"
  /\ UNCHANGED <<rate, period, maxBuffer, now, heap, queue, buffer, inners, source,
                 arrivals, processed, out>>

\* The consumer unsubscribes: the teardown cancels the pending timer.
Unsubscribe ==
  /\ observer = "open"
  /\ observer' = "unsubscribed"
  /\ inners' = {}
  /\ UNCHANGED <<rate, period, maxBuffer, now, heap, queue, buffer, source,
                 arrivals, processed, out>>

\* One millisecond passes.  A due timer fires before the clock moves on.
Elapse ==
  /\ \A i \in inners : i.fireAt > now
  /\ now' = now + 1
  /\ UNCHANGED <<rate, period, maxBuffer, heap, queue, buffer, inners, source,
                 observer, arrivals, processed, out>>

\* One millisecond passes, within the bounds of the model: the clock runs past
\* MaxTime only to let the pending timers expire.
Tick ==
  /\ now < MaxTime \/ inners # {}
  /\ Elapse

Next ==
  \/ Arrive
  \/ TimerFire
  \/ SourceComplete
  \/ SourceError
  \/ Unsubscribe
  \/ Tick

Spec == Init /\ [][Next]_vars

\* The operator while the source does not error and the consumer stays
\* subscribed; the event loop runs the timers and time passes.
LiveNext ==
  \/ Arrive
  \/ TimerFire
  \/ SourceComplete
  \/ Tick

LiveSpec == Init /\ [][LiveNext]_vars /\ WF_vars(Tick) /\ WF_vars(TimerFire)

\* The operator while the consumer stays subscribed: the source may complete or
\* error; the event loop runs the timers and time passes.
SubscribedNext ==
  \/ Arrive
  \/ TimerFire
  \/ SourceComplete
  \/ SourceError
  \/ Tick

SubscribedSpec ==
  Init /\ [][SubscribedNext]_vars /\ WF_vars(Tick) /\ WF_vars(TimerFire)

(***************************************************************************)
(* One run of the operator as the README configures it,                    *)
(* losslessThrottle(3000, 1000), on a source that emits five values 100 ms *)
(* apart.  The handlers are the ones above; only the source's timetable    *)
(* and the configuration are fixed.                                        *)
(***************************************************************************)
ScenarioRate == 3000
ScenarioPeriod == 1000
ScenarioArrivals == <<0, 100, 200, 300, 400>>

ScenarioInit ==
  /\ rate = ScenarioRate
  /\ period = ScenarioPeriod
  /\ maxBuffer = <<>>
  /\ Subscribed

\* The source emits its next value at the time of the timetable.
ScenarioArrive ==
  /\ Len(arrivals) < Len(ScenarioArrivals)
  /\ now = ScenarioArrivals[Len(arrivals) + 1]
  /\ SourceNext

\* One millisecond passes, up to the next arrival and then until the last
\* timer has expired.
ScenarioTick ==
  /\ IF Len(arrivals) < Len(ScenarioArrivals)
        THEN now < ScenarioArrivals[Len(arrivals) + 1]
        ELSE inners # {}
  /\ Elapse

ScenarioNext ==
  \/ ScenarioArrive
  \/ TimerFire
  \/ ScenarioTick

ScenarioSpec == ScenarioInit /\ [][ScenarioNext]_vars

(***************************************************************************)
(* The earlier operator of src/losslessThrottle.ts:                        *)
(*                                                                         *)
(*   source.pipe(filter(p => !filterFn || filterFn(p)),                    *)
(*               scan(reducer, []),                                        *)
(*               concatMap(projection)).subscribe(observer)                *)
(*                                                                         *)
(* Its ThrottleInterface has no scheduled field and its projection emits   *)
(* the tail of every snapshot it is given.  The state, the clock and the   *)
(* source's completion, error and the unsubscribe are those above.         *)
(***************************************************************************)

\* The reducer given to scan.
legacyReducer(h, q, payload, t) ==
  LET pruned == SelectSeq(q, LAMBDA ref : h[ref].emitTime > t - period) IN
  IF Truthy(maxBuffer) /\ Len(pruned) = maxBuffer[1]
    THEN [heap |-> h, queue |-> pruned]
    ELSE [heap  |-> [r \in DOMAIN h \cup {payload} |->
                       IF r # payload THEN h[r]
                       ELSE IF Len(pruned) > 0
                         THEN [delay    |-> rate,
                               emitTime |-> h[pruned[1]].emitTime + rate,
                               payload  |-> payload]
                         ELSE [delay |-> 0, emitTime |-> t, payload |-> payload]],
          queue |-> Append(pruned, payload)]

\* The projection given to concatMap: of(lastItem.payload), piped through
\* delay(due) when lastItem.delay is not 0.
legacyProject(h, q) ==
  IF Len(q) = 0
    THEN [emits |-> <<>>, due |-> 0, throws |-> TRUE]
    ELSE LET lastItem == q[Len(q)] IN
         [emits |-> <<h[lastItem].payload>>, due |-> h[lastItem].delay, throws |-> FALSE]

\* mergeInternals' doInnerSub on the earlier projection.
legacyDoInnerSub(st, value, t) ==
  LET r == legacyProject(st.heap, value) IN
  IF r.throws THEN [st EXCEPT !.thrown = TRUE] ELSE
  [heap      |-> st.heap,
   buffer    |-> st.buffer,
   thrown    |-> FALSE,
   processed |-> Append(st.processed, value[Len(value)]),
   inners    |-> IF r.due # 0
                   THEN st.inners \cup {[fireAt |-> t + r.due, payload |-> r.emits[1]]}
                   ELSE st.inners,
   out       |-> IF r.due = 0
                   THEN Append(st.out, [payload |-> r.emits[1], at |-> t])
                   ELSE st.out]

RECURSIVE legacyDrainBuffer(_, _)
legacyDrainBuffer(st, t) ==
  IF ~st.thrown /\ Len(st.buffer) > 0 /\ Cardinality(st.inners) < Concurrent
    THEN CHOOSE end \in {legacyDrainBuffer(next, t) :
                           next \in {legacyDoInnerSub([st EXCEPT !.buffer = Tail(@)],
                                                      Head(st.buffer), t)}} : TRUE
    ELSE st

legacyOuterNext(st, value, t) ==
  IF Cardinality(st.inners) < Concurrent
    THEN legacyDrainBuffer(legacyDoInnerSub(st, value, t), t)
    ELSE [st EXCEPT !.buffer = Append(@, value)]

\* The source emits a value that passes the filter (no filterFn, or filterFn
\* returns true for it).
LegacySourceNext ==
  /\ source = "open" /\ observer = "open"
  /\ \E s \in {legacyReducer(heap, queue, Len(arrivals) + 1, now)} :
     \E st \in {legacyOuterNext([pipeline EXCEPT !.heap = s.heap], s.queue, now)} :
        /\ queue' = s.queue
        /\ heap' = st.heap
        /\ buffer' = st.buffer
        /\ inners' = activeInners(st)
        /\ processed' = st.processed
        /\ out' = st.out
        /\ observer' = checkComplete(source, st)
        /\ arrivals' = Append(arrivals, [at       |-> now,
                                         accepted |-> Len(arrivals) + 1 \in DOMAIN s.heap,
                                         waiting  |-> inners # {},
                                         filtered |-> FALSE])
  /\ UNCHANGED <<rate, period, maxBuffer, now, source>>

LegacyArrive ==
  /\ Len(arrivals) < MaxArrivals
  /\ now <= MaxTime
  /\ LegacySourceNext

\* The source emits a value for which filterFn returns false: it reaches
\* neither scan nor concatMap.
LegacyFiltered ==
  /\ source = "open" /\ observer = "open"
  /\ Len(arrivals) < MaxArrivals
  /\ now <= MaxTime
  /\ arrivals' = Append(arrivals, [at       |-> now,
                                   accepted |-> FALSE,
                                   waiting  |-> inners # {},
                                   filtered |-> TRUE])
  /\ UNCHANGED <<rate, period, maxBuffer, now, heap, queue, buffer, inners, source,
                 observer, processed, out>>

\* A delay timer expires: the payload is delivered, the inner completes, and
\* concatMap projects the snapshots it buffered.
LegacyTimerFire ==
  /\ observer = "open"
  /\ \E i \in inners :
       /\ i.fireAt = now
       /\ \E st \in {legacyDrainBuffer([pipeline EXCEPT
                                         !.inners = inners \ {i},
                                         !.out = Append(out, [payload |-> i.payload,
                                                              at |-> now])],
                                      now)} :
             /\ heap' = st.heap
             /\ buffer' = st.buffer
             /\ inners' = activeInners(st)
             /\ processed' = st.processed
             /\ out' = st.out
             /\ observer' = checkComplete(source, st)
  /\ UNCHANGED <<rate, period, maxBuffer, now, queue, source, arrivals>>

LegacyNext ==
  \/ LegacyArrive
  \/ LegacyFiltered
  \/ LegacyTimerFire
  \/ SourceComplete
  \/ SourceError
  \/ Unsubscribe
  \/ Tick

LegacySpec == Init /\ [][LegacyNext]_vars

(***************************************************************************)
(* The properties.                                                         *)
(***************************************************************************)

\* How many times payload p was delivered to the consumer.
Count(p) == Cardinality({k \in DOMAIN out : out[k].payload = p})

\* How many delay timers hold payload p.
Pending(p) == Cardinality({i \in inners : i.payload = p})

Range(f) == {f[k] : k \in DOMAIN f}

\* The references of the queue whose emitTime is within the period at time t.
Current(t) == {r \in Range(queue) : heap[r].emitTime > t - period}

\* This step is the arrival of a source value.
Arrives == Len(arrivals') = Len(arrivals) + 1

Later(a, b) == IF a >= b THEN a ELSE b

\* Every payload that arrived while maxBuffer is unset (falsy), or among the first
\* maxBuffer ones, has been delivered exactly once.
Settled ==
  \A p \in DOMAIN arrivals :
    (~Truthy(maxBuffer) \/ p <= maxBuffer[1]) => Count(p) = 1

\* C1: no loss under capacity.  The source not erroring and the consumer staying
\* subscribed, at any time the payloads that have arrived under capacity (maxBuffer
\* unset, or no more than maxBuffer payloads) are all eventually delivered
\* exactly once; and no payload is ever delivered more than once.
NoLossUnderCapacity ==
  /\ []<>Settled
  /\ [](\A p \in DOMAIN arrivals : Count(p) <= 1)

\* C1's case: a burst of N = maxBuffer >= 2 payloads at intervals below rate, in
\* a window shorter than N x rate, all delivered.
BurstDelivered ==
  /\ Truthy(maxBuffer) /\ Len(arrivals) = maxBuffer[1] /\ Len(arrivals) >= 2
  /\ \A k \in 2..Len(arrivals) : arrivals[k].at - arrivals[k - 1].at < rate
  /\ arrivals[Len(arrivals)].at - arrivals[1].at < Len(arrivals) * rate
  /\ \A p \in 1..Len(arrivals) : Count(p) = 1
  /\ source = "open" /\ observer = "open"

\* C2: minimum spacing of deliveries.  A delivery of a throttled item (delay =
\* rate) comes at least rate ms after the delivery before it, and so does the
\* delivery of an item planned with delay 0 (post-prune queue empty) that arrived
\* while earlier payloads were still waiting in the executor.
MinimumDeliverySpacing ==
  \A k \in 2..Len(out) :
    (heap[out[k].payload].delay > 0 \/ arrivals[out[k].payload].waiting)
      => out[k].at - out[k - 1].at >= rate

\* C3: at-most-once emission.  No planned emission is delivered, or held by a
\* timer, more than once; its scheduled flag is true exactly when the Executor
\* has processed a snapshot whose tail it is, and is never reset.
AtMostOnceEmission ==
  /\ [](\A r \in DOMAIN heap :
          /\ Count(r) + Pending(r) <= 1
          /\ heap[r].scheduled <=> r \in Range(processed)
          /\ ~heap[r].scheduled => Count(r) + Pending(r) = 0)
  /\ [][\A r \in DOMAIN heap : heap[r].scheduled => heap'[r].scheduled]_vars

\* C3's case: the Executor processed two snapshots with the same tail, and the
\* tail's payload was delivered once.
TailProcessedTwice ==
  \E j, k \in DOMAIN processed :
    j < k /\ processed[j] = processed[k] /\ Count(processed[j]) = 1

\* C4: order preservation.  The delivered payloads are in arrival order (the
\* payload of the n-th arrival is n), so they are a subsequence of the arrivals.
OrderPreserved ==
  \A j, k \in DOMAIN out : j < k => out[j].payload < out[k].payload

\* C4's case: an item planned with delay 0 arrived while an earlier item planned
\* with delay rate was still waiting, and was delivered after it.
ZeroDelayAfterThrottled ==
  \E k \in 2..Len(out) :
    /\ heap[out[k - 1].payload].delay > 0
    /\ heap[out[k].payload].delay = 0
    /\ arrivals[out[k].payload].at < out[k - 1].at

\* C5: capacity drop.  When a payload arrives and the pruned queue holds
\* maxBuffer items, the queue is returned without it, no object is created, no
\* payload is delivered and no timer started by the arrival, and no error is
\* signalled; a payload dropped is never delivered.
CapacityDrop ==
  /\ [][(Arrives /\ Truthy(maxBuffer) /\ Cardinality(Current(now)) = maxBuffer[1])
          => /\ queue' = SelectSeq(queue, LAMBDA r : r \in Current(now))
             /\ heap' = heap
             /\ out' = out
             /\ inners' = inners
             /\ observer' = observer]_vars
  /\ [](\A k \in DOMAIN out : out[k].payload \in DOMAIN heap)
  /\ [](\A p \in DOMAIN arrivals : arrivals[p].accepted <=> p \in DOMAIN heap)

\* C5's case: a payload was dropped at capacity, the Executor has processed its
\* snapshot, and the consumer is still subscribed.
DroppedAtCapacity ==
  \E p \in DOMAIN arrivals :
    /\ ~arrivals[p].accepted
    /\ Len(processed) >= p
    /\ Count(p) = 0
    /\ observer = "open"

\* C6: capacity invariant.  With maxBuffer a positive integer, the queue never
\* holds more than maxBuffer items.
CapacityInvariant == Truthy(maxBuffer) => Len(queue) <= maxBuffer[1]

\* C6's case: the queue is full and an arrival was turned away.
QueueFull ==
  /\ Truthy(maxBuffer) /\ Len(queue) = maxBuffer[1]
  /\ \E p \in DOMAIN arrivals : ~arrivals[p].accepted

\* C7: minimum spacing of emitTime.  The emitTime of consecutive emissions is at
\* least rate apart, except when the later one was planned with delay 0 (the
\* exception read as widely as it can be: any fresh start).
MinimumEmitTimeSpacing ==
  \A k \in 2..Len(out) :
    \/ heap[out[k].payload].delay = 0
    \/ heap[out[k].payload].emitTime - heap[out[k - 1].payload].emitTime >= rate

\* C8 as claimed: idle reset.  A payload that arrives more than period ms after
\* the arrival before it finds the queue fully pruned and is planned with delay
\* 0 and emitTime = now.
IdleReset ==
  [][(Arrives /\ Len(arrivals) > 0 /\ now - arrivals[Len(arrivals)].at > period)
       => /\ queue' = <<Len(arrivals')>>
          /\ heap'[Len(arrivals')].delay = 0
          /\ heap'[Len(arrivals')].emitTime = now]_vars

\* C8 as amended: the reset is decided by the emitTime of the queued items, not
\* by the gap between arrivals.  A payload that arrives when every queued
\* emitTime is at least period ms old finds the queue fully pruned and is planned
\* with delay 0 and emitTime = now; while a queued emitTime is younger, the queue
\* is not emptied and a payload that is accepted is planned with delay rate.
IdleResetByEmitTime ==
  [][Arrives =>
       IF Current(now) = {}
         THEN /\ queue' = <<Len(arrivals')>>
              /\ heap'[Len(arrivals')].delay = 0
              /\ heap'[Len(arrivals')].emitTime = now
         ELSE /\ queue' # <<Len(arrivals')>>
              /\ arrivals'[Len(arrivals')].accepted
                   => heap'[Len(arrivals')].delay = rate]_vars

\* C8's case: after a gap longer than period a payload found a queue of throttled
\* items fully pruned, and was planned with delay 0 at its arrival time.
ResetAfterIdle ==
  \E p \in 2..Len(arrivals) :
    /\ arrivals[p].at - arrivals[p - 1].at > period
    /\ arrivals[p - 1].accepted /\ heap[p - 1].delay = rate
    /\ arrivals[p].accepted /\ heap[p].delay = 0 /\ heap[p].emitTime = arrivals[p].at
    /\ queue[1] = p

\* C9: no early emission.  A payload is delivered at a time >= its emitTime.
NoEarlyEmission ==
  \A k \in DOMAIN out : out[k].at >= heap[out[k].payload].emitTime

\* C9's case: a throttled payload was delivered, later than its emitTime.
ThrottledDeliveredLate ==
  \E k \in DOMAIN out :
    /\ heap[out[k].payload].delay = rate
    /\ out[k].at > heap[out[k].payload].emitTime

Terminated == observer \in {"error", "complete"}

\* C11: error pass-through.  An error of the source reaches the consumer in the
\* same step; the consumer gets no error but the source's (the operator throws
\* none of its own); and once the consumer has an error or a completion, no
\* payload is delivered, no Scheduler step runs and nothing more is signalled.
ErrorPassThrough ==
  /\ [](observer = "error" => source = "error")
  /\ [][(source = "open" /\ source' = "error") => observer' = "error"]_vars
  /\ [][Terminated => /\ out' = out
                      /\ queue' = queue
                      /\ heap' = heap
                      /\ arrivals' = arrivals
                      /\ observer' = observer]_vars

\* C11's case: the source errored after payloads were delivered, and time went
\* on after the error.
ErroredAfterDeliveries ==
  /\ source = "error" /\ observer = "error"
  /\ Len(out) >= 2
  /\ now > out[Len(out)].at
  /\ now > arrivals[Len(arrivals)].at

\* When the Executor's timer for r, were it still running, would expire: delay
\* ms after the later of r's arrival and the last delivery.
WouldFireAt(r) ==
  Later(arrivals[r].at, IF out # <<>> THEN out[Len(out)].at ELSE 0) + heap[r].delay

\* C12: cancellation.  Once the consumer has unsubscribed no timer is pending, no
\* payload is delivered, and the queue and its objects are not touched again.
Cancellation ==
  /\ [](observer = "unsubscribed" => inners = {})
  /\ [][observer = "unsubscribed" => /\ out' = out
                                     /\ queue' = queue
                                     /\ heap' = heap
                                     /\ buffer' = buffer
                                     /\ arrivals' = arrivals
                                     /\ observer' = observer]_vars

\* C12's case: the consumer unsubscribed while a payload was waiting for its
\* delay, the time of its delivery has passed and it was not delivered.
CancelledWhilePending ==
  /\ observer = "unsubscribed"
  /\ \E r \in DOMAIN heap :
       /\ heap[r].scheduled /\ heap[r].delay > 0 /\ Count(r) = 0
       /\ now > WouldFireAt(r)

\* The elements of the queue that a Scheduler step at time t keeps, in order.
Kept(t) == SelectSeq(queue, LAMBDA r : heap[r].emitTime > t - period)

\* C15: the Scheduler step.  For the queue, the payload p and the clock of an
\* arrival, schedulePayload removes exactly the elements with emitTime <= now -
\* period; at capacity it returns that; otherwise it appends one new object with
\* payload p and scheduled = false, with delay 0 and emitTime now if nothing was
\* kept, and delay rate and emitTime (oldest kept emitTime) + rate otherwise;
\* the queue after the step is its result, and all its emitTime are > now - period.
SchedulerStep ==
  [][Arrives =>
       LET p == Len(arrivals')
           s == schedulePayload(heap, queue, p, now)
       IN /\ queue' = s.queue
          /\ IF Truthy(maxBuffer) /\ Len(Kept(now)) = maxBuffer[1]
               THEN s.queue = Kept(now) /\ s.heap = heap
               ELSE /\ s.queue = Append(Kept(now), p)
                    /\ DOMAIN s.heap = DOMAIN heap \cup {p}
                    /\ \A r \in DOMAIN heap : s.heap[r] = heap[r]
                    /\ s.heap[p] =
                         [delay     |-> IF Kept(now) = <<>> THEN 0 ELSE rate,
                          emitTime  |-> IF Kept(now) = <<>>
                                          THEN now
                                          ELSE heap[Kept(now)[1]].emitTime + rate,
                          payload   |-> p,
                          scheduled |-> FALSE]
          /\ \A k \in DOMAIN queue' : heap'[queue'[k]].emitTime > now - period]_vars

\* C15's case: a step that pruned the oldest elements and appended a throttled
\* payload behind two that were kept.
PrunedAndAppended ==
  /\ Len(queue) >= 3
  /\ queue[1] > 1
  /\ heap[queue[Len(queue)]].delay = rate
  /\ heap[queue[Len(queue)]].emitTime = heap[queue[1]].emitTime + rate

\* C16: monotone queue.  The emitTime of the queue is non-decreasing from oldest
\* to newest; a Scheduler step keeps a suffix of the queue (it prunes a prefix);
\* and the tail of a non-empty queue is the object appended last.
MonotoneQueue ==
  /\ [](\A j, k \in DOMAIN queue :
          j <= k => heap[queue[j]].emitTime <= heap[queue[k]].emitTime)
  /\ [](queue # <<>> => \A r \in DOMAIN heap : r <= queue[Len(queue)])
  /\ [][Arrives => Kept(now) = SubSeq(queue, Len(queue) - Len(Kept(now)) + 1,
                                      Len(queue))]_vars

\* C16's case: a queue from which a prefix was pruned, holding different emitTime.
PrefixPruned ==
  /\ Len(queue) >= 2
  /\ queue[1] > 1
  /\ heap[queue[1]].emitTime < heap[queue[Len(queue)]].emitTime

\* C17: snapshot isolation.  The snapshots are processed in arrival order, the
\* k-th by the Executor being the k-th arrival's; its tail, read when it is
\* processed, is the object appended for that arrival, or, for an arrival dropped
\* at capacity, an object that was the tail of a snapshot processed before; and
\* the same holds of the snapshots still buffered, which no step alters.
SnapshotIsolation ==
  /\ [](/\ Len(processed) <= Len(arrivals)
        /\ \A k \in DOMAIN processed :
             IF arrivals[k].accepted
               THEN processed[k] = k
               ELSE \E j \in 1..(k - 1) : processed[j] = processed[k]
        /\ \A i \in DOMAIN buffer :
             /\ Len(processed) + i <= Len(arrivals)
             /\ buffer[i] # <<>>
             /\ LET tail == buffer[i][Len(buffer[i])] IN
                IF arrivals[Len(processed) + i].accepted
                  THEN tail = Len(processed) + i
                  ELSE tail < Len(processed) + i)
  /\ [][\E n \in 0..Len(buffer) :
          LET rest == SubSeq(buffer, n + 1, Len(buffer)) IN
          \/ buffer' = rest
          \/ Len(buffer') = Len(rest) + 1 /\ SubSeq(buffer', 1, Len(rest)) = rest]_vars

\* C17's case: the Executor processed, after later arrivals had been scheduled
\* and had pruned the queue, the snapshot of an arrival dropped at capacity.
DeferredSnapshotProcessed ==
  \E k \in DOMAIN processed :
    /\ ~arrivals[k].accepted
    /\ arrivals[k].waiting
    /\ k < Len(arrivals)
    /\ processed[k] \notin Range(queue)

\* Every payload the Scheduler accepted has been delivered exactly once.
AcceptedDelivered == \A p \in DOMAIN heap : Count(p) = 1

\* C18: pruned items are still delivered.  The source not erroring and the
\* consumer staying subscribed, every accepted payload, whether or not it is
\* still in the queue, is eventually delivered exactly once.
PrunedStillDelivered ==
  /\ []<>AcceptedDelivered
  /\ [](\A p \in DOMAIN heap : Count(p) <= 1 /\ (Count(p) = 1 => heap[p].scheduled))

\* C18's case: payload p was pruned by the arrival of q, before its delivery, and
\* was delivered later.
DeliveredAfterPruned ==
  \E k \in DOMAIN out : \E q \in DOMAIN arrivals :
    /\ q > out[k].payload
    /\ heap[out[k].payload].emitTime <= arrivals[q].at - period
    /\ out[k].at > arrivals[q].at

\* C19: the Executor never receives an empty queue.  Whatever maxBuffer is
\* (unset, 0 or positive), after the first arrival the queue is not empty, no
\* buffered snapshot is empty, and the Executor has thrown on none: the consumer
\* has no error that is not the source's, and while it is subscribed every
\* snapshot has been processed or is buffered.
ExecutorQueueNonEmpty ==
  /\ arrivals # <<>> => Len(queue) >= 1
  /\ \A i \in DOMAIN buffer : Len(buffer[i]) >= 1
  /\ observer = "error" => source = "error"
  /\ observer \in {"open", "complete"} => Len(processed) + Len(buffer) = Len(arrivals)

\* C19's case: maxBuffer is 0 and payloads were scheduled and processed.
ZeroMaxBuffer ==
  /\ maxBuffer = <<0>>
  /\ Len(queue) >= 2
  /\ Len(processed) >= 2

\* C20: completion is deferred, not lossy.  The consumer staying subscribed: the
\* completion reaches the consumer only when every accepted payload has been
\* delivered, and after the source completes it does reach it; an error of the
\* source reaches the consumer in the same step, and the payloads waiting then
\* are never delivered.
CompletionDeferred ==
  /\ [](observer = "complete" => source = "complete" /\ AcceptedDelivered)
  /\ (source = "complete") ~> (observer = "complete")
  /\ [][(source = "open" /\ source' = "error") => observer' = "error" /\ inners' = {}]_vars
  /\ [][source = "error" => out' = out]_vars

\* C20's case: the source has completed while one payload waits for its delay
\* and another behind it, and the consumer has not been told yet.
CompletionWaiting ==
  /\ source = "complete" /\ observer = "open"
  /\ inners # {} /\ buffer # <<>>


LegacyCapacityDrop ==
  /\ [][(/\ Arrives
         /\ ~arrivals'[Len(arrivals')].filtered
         /\ Truthy(maxBuffer)
         /\ Len(SelectSeq(queue, LAMBDA ref : heap[ref].emitTime > now - period))
              = maxBuffer[1])
          => /\ out' = out
             /\ inners' = inners
             /\ observer' = observer]_vars
  /\ [](\A p \in 1..Len(arrivals) : Count(p) <= 1)

====
